---- MODULE Spec2Model ----
(***************************************************************************)
(* Model of the news_video_search ingestion pipeline:                      *)
(*   app/core/video_processor.py      ingest_videos, create_sliding_windows*)
(*   app/process_videos.py            process_single_video, main           *)
(*   app/services/vision_service.py   get_frame_difference, captioning     *)
(*   app/services/embedding_service.py add_chunk_to_db                     *)
(*                                                                         *)
(* Times are integers in hundredths of a second: the code rounds every     *)
(* duration and window boundary to two decimals, so round(x, 2) is exact   *)
(* on these values.                                                        *)
(***************************************************************************)
EXTENDS Integers, Sequences, FiniteSets, TLC

\* ------------------------------------------------------------------------
\* Program constants
\* ------------------------------------------------------------------------
Centi == 100
pipeline_window_size == 20
pipeline_step_size == 10
scene_change_threshold == 50
max_retries == 3

None == "None"
InitialCaption == "No visual context available."
CaptionError == "Error analyzing image."

\* ------------------------------------------------------------------------
\* Bounds of the model
\* ------------------------------------------------------------------------
MaxSeconds == 31
MaxSegments == 2
MaxCalls == 3
MaxDirWork == 3
MaxFaults == 3
MaxRuns == 2
MaxRerunFaults == 1
MaxCleanupFaults == 2
MaxBatchFaults == 1
MaxTokens == 4
MaxChunks == 3

\* ------------------------------------------------------------------------
\* Generic helpers
\* ------------------------------------------------------------------------
Range(s) == {s[k] : k \in 1..Len(s)}

Last(s) == s[Len(s)]

RECURSIVE SeqsUpTo(_, _)
SeqsUpTo(S, n) ==
    IF n = 0 THEN {<<>>}
    ELSE LET shorter == SeqsUpTo(S, n - 1)
         IN shorter \cup {Append(s, x) : s \in {t \in shorter : Len(t) = n - 1}, x \in S}

\* ------------------------------------------------------------------------
\* create_sliding_windows (video_processor.py)
\* ------------------------------------------------------------------------
\* The function's float arguments are modelled in thousandths of a second,
\* the timestamps it returns (rounded to two decimals) in hundredths.
Milli == 10 * Centi

\* round(x, 2) of a non-negative x given in thousandths; a tie goes to the
\* even neighbour.
RoundHundredths(x) ==
    LET q == x \div (Milli \div Centi)
        r == x % (Milli \div Centi)
    IN IF 2 * r < Milli \div Centi THEN q
       ELSE IF 2 * r > Milli \div Centi THEN q + 1
       ELSE IF q % 2 = 0 THEN q ELSE q + 1

Window(current_start, current_end) ==
    [start |-> RoundHundredths(current_start), end |-> RoundHundredths(current_end)]

RECURSIVE WindowLoopStepByWindow(_, _, _, _, _)
WindowLoopStepByWindow(video_duration, window_size, step_size, current_start, windows) ==
    IF ~(current_start < video_duration) THEN windows
    ELSE LET unclipped == current_start + window_size * Milli
             current_end == IF unclipped > video_duration THEN video_duration ELSE unclipped
         IN IF current_end - current_start < 1 * Milli THEN windows
            ELSE LET emitted == Append(windows, Window(current_start, current_end))
                 IN IF current_end = video_duration THEN emitted
                    ELSE WindowLoopStepByWindow(video_duration, window_size, step_size,
                                                current_start + window_size * Milli, emitted)

RECURSIVE WindowLoopDropClipped(_, _, _, _, _)
WindowLoopDropClipped(video_duration, window_size, step_size, current_start, windows) ==
    IF ~(current_start < video_duration) THEN windows
    ELSE LET current_end == current_start + window_size * Milli
         IN IF current_end > video_duration THEN windows
            ELSE LET emitted == Append(windows, Window(current_start, current_end))
                 IN IF current_end = video_duration THEN emitted
                    ELSE WindowLoopDropClipped(video_duration, window_size, step_size,
                                               current_start + step_size * Milli, emitted)

RECURSIVE WindowLoopNoExitAtEnd(_, _, _, _, _)
WindowLoopNoExitAtEnd(video_duration, window_size, step_size, current_start, windows) ==
    IF ~(current_start < video_duration) THEN windows
    ELSE LET unclipped == current_start + window_size * Milli
             current_end == IF unclipped > video_duration THEN video_duration ELSE unclipped
         IN IF current_end - current_start < 1 * Milli THEN windows
            ELSE WindowLoopNoExitAtEnd(video_duration, window_size, step_size,
                                       current_start + step_size * Milli,
                                       Append(windows, Window(current_start, current_end)))

\* The while loop of create_sliding_windows, one iteration per unfolding.
RECURSIVE WindowLoop(_, _, _, _, _)
WindowLoop(video_duration, window_size, step_size, current_start, windows) ==
    IF ~(current_start < video_duration) THEN windows
    ELSE LET unclipped == current_start + window_size * Milli
             current_end == IF unclipped > video_duration THEN video_duration ELSE unclipped
         IN IF current_end - current_start < 1 * Milli THEN windows
            ELSE LET emitted == Append(windows, Window(current_start, current_end))
                 IN IF current_end = video_duration THEN emitted
                    ELSE WindowLoop(video_duration, window_size, step_size,
                                    current_start + step_size * Milli, emitted)

\* The number of times the body of the while loop is entered.
RECURSIVE WindowLoopIterations(_, _, _, _)
WindowLoopIterations(video_duration, window_size, step_size, current_start) ==
    IF ~(current_start < video_duration) THEN 0
    ELSE LET unclipped == current_start + window_size * Milli
             current_end == IF unclipped > video_duration THEN video_duration ELSE unclipped
         IN IF current_end - current_start < 1 * Milli THEN 1
            ELSE IF current_end = video_duration THEN 1
            ELSE 1 + WindowLoopIterations(video_duration, window_size, step_size,
                                          current_start + step_size * Milli)

RECURSIVE WindowLoopStepOneSecond(_, _, _, _, _)
WindowLoopStepOneSecond(video_duration, window_size, step_size, current_start, windows) ==
    IF ~(current_start < video_duration) THEN windows
    ELSE LET unclipped == current_start + window_size * Milli
             current_end == IF unclipped > video_duration THEN video_duration ELSE unclipped
         IN IF current_end - current_start < 1 * Milli THEN windows
            ELSE LET emitted == Append(windows, Window(current_start, current_end))
                 IN IF current_end = video_duration THEN emitted
                    ELSE WindowLoopStepOneSecond(video_duration, window_size, step_size,
                                                 current_start + 1 * Milli, emitted)

create_sliding_windows_step_one_second(video_duration, window_size, step_size) ==
    WindowLoopStepOneSecond(video_duration, window_size, step_size, 0, <<>>)

create_sliding_windows_step_by_window(video_duration, window_size, step_size) ==
    WindowLoopStepByWindow(video_duration, window_size, step_size, 0, <<>>)

create_sliding_windows_drop_clipped(video_duration, window_size, step_size) ==
    WindowLoopDropClipped(video_duration, window_size, step_size, 0, <<>>)

create_sliding_windows_no_exit_at_end(video_duration, window_size, step_size) ==
    WindowLoopNoExitAtEnd(video_duration, window_size, step_size, 0, <<>>)

create_sliding_windows_clip_moves_start(video_duration, window_size, step_size) ==
    LET windows == WindowLoop(video_duration, window_size, step_size, 0, <<>>)
        n == Len(windows)
    IN IF n >= 2 /\ windows[n].end - windows[n].start < window_size * Centi
       THEN [windows EXCEPT ![n].start =
                IF windows[n].end > window_size * Centi
                THEN windows[n].end - window_size * Centi ELSE 0]
       ELSE windows

create_sliding_windows_newest_first(video_duration, window_size, step_size) ==
    LET windows == WindowLoop(video_duration, window_size, step_size, 0, <<>>)
    IN [k \in 1..Len(windows) |-> windows[Len(windows) + 1 - k]]

\* video_duration in thousandths of a second, window_size and step_size in
\* whole seconds (they are ints in the source); the windows in hundredths.
create_sliding_windows(video_duration, window_size, step_size) ==
    WindowLoop(video_duration, window_size, step_size, 0, <<>>)

\* ------------------------------------------------------------------------
\* Audio alignment (process_videos.py, step A of the window loop)
\* ------------------------------------------------------------------------
\* A text is a sequence of tokens; the tokens " " and "\n" are whitespace.
SP == " "
NL == "\n"
Whitespace == {SP, NL}

OverlapsInclusive(seg, start_t, end_t) == seg.start <= end_t /\ seg.end >= start_t

\* seg.start < end_t and seg.end > start_t
Overlaps(seg, start_t, end_t) == seg.start < end_t /\ seg.end > start_t

RECURSIVE chunk_text_parts(_, _, _)
chunk_text_parts(segments, start_t, end_t) ==
    IF segments = <<>> THEN <<>>
    ELSE LET seg == Head(segments)
             rest == chunk_text_parts(Tail(segments), start_t, end_t)
         IN IF Overlaps(seg, start_t, end_t) THEN <<seg.text>> \o rest ELSE rest

\* " ".join(parts)
RECURSIVE Join(_)
Join(parts) ==
    IF parts = <<>> THEN <<>>
    ELSE IF Len(parts) = 1 THEN parts[1]
    ELSE parts[1] \o <<SP>> \o Join(Tail(parts))

RECURSIVE LStrip(_)
LStrip(text) ==
    IF text # <<>> /\ Head(text) \in Whitespace THEN LStrip(Tail(text)) ELSE text

RECURSIVE RStrip(_)
RStrip(text) ==
    IF text # <<>> /\ Last(text) \in Whitespace
    THEN RStrip(SubSeq(text, 1, Len(text) - 1))
    ELSE text

\* str.strip()
Strip(text) == RStrip(LStrip(text))

\* audio_text = " ".join(chunk_text_parts).strip()
AudioText(segments, start_t, end_t) == Strip(Join(chunk_text_parts(segments, start_t, end_t)))

\* ------------------------------------------------------------------------
\* Entity extraction (ner_analyzer.py)
\* ------------------------------------------------------------------------
EntityLabels == {"PERSON", "ORG", "GPE"}

\* The recognizer (spaCy) is deterministic in its input: it reports the
\* name tokens of the text, in text order, with their labels.  An entity's
\* text is a token sequence, like every text of the model; the span of a
\* name that a line break follows carries the line break.
LabelOf(token) ==
    CASE token = "Ann"  -> "PERSON"
      [] token = "Bob"  -> "PERSON"
      [] token = "UN"   -> "ORG"
      [] token = "Baku" -> "GPE"
      [] token = "2024" -> "DATE"
      [] OTHER          -> "O"

RECURSIVE nlp(_)
nlp(text) ==
    IF text = <<>> THEN <<>>
    ELSE IF LabelOf(Head(text)) = "O" THEN nlp(Tail(text))
    ELSE IF Len(text) >= 2 /\ text[2] = NL
    THEN <<[text |-> <<Head(text), NL>>, label |-> LabelOf(Head(text))]>>
            \o nlp(Tail(Tail(text)))
    ELSE <<[text |-> <<Head(text)>>, label |-> LabelOf(Head(text))]>> \o nlp(Tail(text))

RECURSIVE EntityLoopKeepRepeats(_, _)
EntityLoopKeepRepeats(ents, entities) ==
    IF ents = <<>> THEN entities
    ELSE LET ent == Head(ents)
             label == ent.label
             text_value == Strip(ent.text)
         IN IF label \in DOMAIN entities
            THEN EntityLoopKeepRepeats(Tail(ents),
                     [entities EXCEPT ![label] = Append(entities[label], text_value)])
            ELSE EntityLoopKeepRepeats(Tail(ents), entities)

extract_entities_keep_repeats(text) ==
    IF text = <<>> THEN [l \in {"PERSON", "ORG", "GPE"} |-> <<>>]
    ELSE EntityLoopKeepRepeats(nlp(text), [l \in {"PERSON", "ORG", "GPE"} |-> <<>>])

RECURSIVE EntityLoop(_, _)
EntityLoop(ents, entities) ==
    IF ents = <<>> THEN entities
    ELSE LET ent == Head(ents)
             label == ent.label
             text_value == Strip(ent.text)
         IN IF label \in DOMAIN entities /\ text_value \notin Range(entities[label])
            THEN EntityLoop(Tail(ents),
                            [entities EXCEPT ![label] = Append(entities[label], text_value)])
            ELSE EntityLoop(Tail(ents), entities)

extract_entities(text) ==
    IF text = <<>> THEN [l \in EntityLabels |-> <<>>]
    ELSE EntityLoop(nlp(text), [l \in EntityLabels |-> <<>>])

\* ", ".join(names)
RECURSIVE CommaJoin(_)
CommaJoin(names) ==
    IF names = <<>> THEN <<>>
    ELSE IF Len(names) = 1 THEN names[1]
    ELSE names[1] \o <<", ">> \o CommaJoin(Tail(names))

\* ------------------------------------------------------------------------
\* Scene difference (vision_service.py)
\* ------------------------------------------------------------------------
\* A frame is the sequence of its gray levels after the 64x64 grayscale
\* reduction; the frames of the model are uniform, so one level stands for
\* all pixels.  No frame (None) is the empty sequence.
NoFrame == <<>>
Inf == 1000000

RECURSIVE SumSq(_, _)
SumSq(gray1, gray2) ==
    IF gray1 = <<>> THEN 0
    ELSE (Head(gray1) - Head(gray2)) * (Head(gray1) - Head(gray2))
         + SumSq(Tail(gray1), Tail(gray2))

get_frame_difference_zero_if_none(frame1, frame2) ==
    IF frame1 = NoFrame \/ frame2 = NoFrame THEN 0
    ELSE SumSq(frame1, frame2) \div Len(frame1)

get_frame_difference(frame1, frame2) ==
    IF frame1 = NoFrame \/ frame2 = NoFrame THEN Inf
    ELSE SumSq(frame1, frame2) \div Len(frame1)

InitialPreviousFrameStale == <<0>>

\* previous_frame = None, before the window loop of each video
InitialPreviousFrame == NoFrame

StepAfterGateOcrIfCaptioned(captioned_now) == IF captioned_now THEN "ocr" ELSE "ner"

\* after the if/else of the gate, in both cases:
\* ocr_text = extract_text_from_frame(current_frame)
StepAfterGate(captioned_now) == "ocr"

ReferenceFrameKept(previous, current) == previous

\* else branch of the gate: previous_frame = current_frame
ReferenceFrame(previous, current) == current

FrameAvailableAlways(frame) == TRUE

\* if current_frame is not None
FrameAvailable(frame) == frame # NoFrame

SceneChangedInverted(i, diff) == i = 0 \/ diff < scene_change_threshold

\* if i == 0 or diff > scene_change_threshold
SceneChanged(i, diff) == i = 0 \/ diff > scene_change_threshold

\* ------------------------------------------------------------------------
\* Record assembly (process_videos.py, step D; embedding_service.py)
\* ------------------------------------------------------------------------
FinalTextOmitEmpty(visual_caption, ocr_text, audio_text) ==
    (IF visual_caption = "" THEN <<>> ELSE <<"[Visual Scene]:", visual_caption>>)
      \o (IF ocr_text = <<>> THEN <<>> ELSE <<"[On-Screen Text]:">> \o ocr_text)
      \o (IF audio_text = <<>> THEN <<>> ELSE <<"[Audio Transcript]:">> \o audio_text)

\* f"[Visual Scene]: {visual_caption} [On-Screen Text]: {ocr_text} [Audio Transcript]: {audio_text}"
FinalText(visual_caption, ocr_text, audio_text) ==
    <<"[Visual Scene]:", visual_caption, "[On-Screen Text]:">> \o ocr_text
      \o <<"[Audio Transcript]:">> \o audio_text

LabelPos(text, label) == CHOOSE k \in 1..Len(text) : text[k] = label

VisualOf(text) == text[2]
OcrTextOf(text) == SubSeq(text, 4, LabelPos(text, "[Audio Transcript]:") - 1)
AudioOf(text) == SubSeq(text, LabelPos(text, "[Audio Transcript]:") + 1, Len(text))

PipelineMetadata(filename, entities) ==
    [filename |-> filename,
     people |-> CommaJoin(entities["PERSON"]),
     organizations |-> CommaJoin(entities["ORG"]),
     locations |-> CommaJoin(entities["GPE"])]

\* chunk_id = f"{video_id}_{start_time}_{end_time}"
ChunkId(video_id, start_time, end_time) == <<video_id, start_time, end_time>>

\* metadata["video_id"] = video_id; ["start_time"]; ["end_time"]
WithMandatory(metadata, video_id, start_time, end_time) ==
    [video_id |-> video_id, start_time |-> start_time, end_time |-> end_time] @@ metadata

Entry(chunk_id, text, metadata) == [id |-> chunk_id, document |-> text, metadata |-> metadata]

Ids(coll) == {r.id : r \in coll}

\* collection.add(documents=[text], metadatas=[metadata], ids=[chunk_id]),
\* when it does not raise: a new identity is inserted, an identity the
\* collection already holds is left as it is (add never overwrites).
StoreAdd(coll, chunk_id, text, metadata) ==
    IF chunk_id \in Ids(coll) THEN coll
    ELSE coll \cup {Entry(chunk_id, text, metadata)}

HandledUnlessExhausted(attempt) == attempt < max_retries - 1

\* except Exception as e: the handler prints and never re-raises
Handled(attempt) == TRUE

LoopContinuesOnceMore(attempt) == attempt + 1 < max_retries + 1

\* for attempt in range(max_retries): is there a next iteration
LoopContinues(attempt) == attempt + 1 < max_retries

ShouldRetryAlways(attempt) == TRUE

\* if attempt < max_retries - 1
ShouldRetry(attempt) == attempt < max_retries - 1

\* ------------------------------------------------------------------------
\* Video files and ingestion (video_processor.py)
\* ------------------------------------------------------------------------
\* round(n / d, 2) in hundredths
Round2(n, d) == (2 * n * Centi + d) \div (2 * d)

NoDuration == <<>>

\* a duration held in hundredths, as the float the window generator receives
Thousandths(duration_seconds) == duration_seconds * (Milli \div Centi)

\* None if the file cannot be opened, 0.0 if the frame rate is invalid
get_video_duration(file) ==
    IF ~file.isOpened THEN NoDuration
    ELSE IF file.fps > 0 THEN <<Round2(file.frame_count, file.fps)>>
    ELSE <<0>>

RECURSIVE IngestLoop(_, _, _)
IngestLoop(files, ids, ingested_videos) ==
    IF files = <<>> THEN ingested_videos
    ELSE LET file == Head(files)
             duration == get_video_duration(file)
         IN IF duration = NoDuration
            THEN IngestLoop(Tail(files), ids, ingested_videos)
            ELSE IngestLoop(Tail(files), Tail(ids),
                            Append(ingested_videos,
                                   [video_id |-> Head(ids),
                                    filename |-> file.filename,
                                    duration_seconds |-> duration[1]]))

\* ids: the successive values of str(uuid.uuid4())[:8]
ingest_videos(files, ids) == IngestLoop(files, ids, <<>>)

\* ------------------------------------------------------------------------
\* Inputs of the model
\* ------------------------------------------------------------------------
Unopenable == [isOpened |-> FALSE, fps |-> 0, frame_count |-> 0]
NoFrameRate == [isOpened |-> TRUE, fps |-> 0, frame_count |-> 50]
TwoWindows == [isOpened |-> TRUE, fps |-> 2, frame_count |-> 50]
ThreeWindows == [isOpened |-> TRUE, fps |-> 2, frame_count |-> 61]
OneWindow == [isOpened |-> TRUE, fps |-> 2, frame_count |-> 20]

FileContents == {Unopenable, NoFrameRate, OneWindow, TwoWindows, ThreeWindows}

FileNames == <<"a.mp4", "b.mp4", "c.mp4", "d.mp4", "e.mp4">>

Named(contents) ==
    [k \in 1..Len(contents) |-> [filename |-> FileNames[k]] @@ contents[k]]

WindowsOfFile(file) ==
    LET duration == get_video_duration(file)
    IN IF duration = NoDuration THEN 0
       ELSE Len(create_sliding_windows(Thousandths(duration[1]), pipeline_window_size,
                                       pipeline_step_size))

\* The work a folder asks for: one unit per file, one more for each window
\* after a file's first.
RECURSIVE DirWork(_)
DirWork(files) ==
    IF files = <<>> THEN 0
    ELSE (IF WindowsOfFile(Head(files)) > 1 THEN WindowsOfFile(Head(files)) ELSE 1)
         + DirWork(Tail(files))

Directories ==
    {Named(c) : c \in {d \in SeqsUpTo(FileContents, MaxDirWork) :
                          d # <<>> /\ DirWork(d) <= MaxDirWork}}

\* What the random uuid generator can deliver in one run of the script.
VideoIdStreams ==
    { <<"1a2b3c4d", "9f8e7d6c", "5e6f7a8b", "0c1d2e3f", "4d5e6f70">>,
      <<"77aa88bb", "1a2b3c4d", "c0ffee00", "deadbeef", "0badf00d">> }

Levels == {0, 7, 14}
Frames == {<<g>> : g \in Levels}

\* The caption collaborator describes what the frame shows.
CaptionOf(frame) ==
    CASE frame = <<0>>  -> "anchor in studio"
      [] frame = <<7>>  -> "anchor in studio, banner"
      [] frame = <<14>> -> "reporter outdoors"

RerunDirectories == {Named(<<TwoWindows>>), Named(<<Unopenable, OneWindow>>)}

\* reader.readtext(frame, detail=0): the text pieces visible on the frame
readtext(frame) == IF frame = <<7>> THEN << <<"BREAKING">>, <<"NEWS">> >> ELSE <<>>

\* A transcript that ends before the video does.
ShortTranscript ==
    << [start |-> 0, end |-> 1000, text |-> <<SP, "Bob", "spoke">>] >>

NewsTranscript ==
    << [start |-> 0,    end |-> 1000, text |-> <<SP, "Ann", "met", "UN">>],
       [start |-> 1000, end |-> 2000, text |-> <<SP, "in", "Baku">>],
       [start |-> 2000, end |-> 3050, text |-> <<SP, "Ann", "left">>] >>

\* What the transcription service returns for a video, when it returns
\* segments at all: the speech of the videos longer than 30 seconds ends
\* after ten seconds.
TranscriptOf(video) ==
    IF video.duration_seconds > 30 * Centi THEN ShortTranscript ELSE NewsTranscript

NoTranscriptIgnored(result) == FALSE

\* os.remove(audio_path) deletes the file, or fails because the file is in
\* use or protected (PermissionError), or fails with another OSError.
RemoveOutcomes == {"removed", "PermissionError", "OSError"}

\* except PermissionError: print a warning
WarningOnly(outcome) == outcome \in {"removed", "PermissionError"}

\* if not segments: return
NoTranscript(result) == result = <<>>

\* ------------------------------------------------------------------------
\* State
\* ------------------------------------------------------------------------
VARIABLES
    arg, res,                 \* input and result of the function under test
    dir, fault_budget, run_budget,   \* the video folder; failures that may be injected; runs
    remove_may_fail,          \* whether deleting the temporary audio file may fail
    videos, run, vi,          \* main: ingested list, number of runs, loop index (1-based)
    pc,                       \* position in main / process_single_video / add_chunk_to_db
    segments, chunks, i,      \* process_single_video: transcript, windows, enumerate index
    previous_frame, previous_caption,
    current_frame, visual_caption, ocr_text, audio_text,
    call, attempt, ret, events,   \* add_chunk_to_db: arguments, loop index, return point, trace
    collection,               \* the ChromaDB collection: chunk id -> record
    reported_saved, reported_failed,   \* chunk ids printed as saved / as failed
    captioned, last_caption, failed, frames_seen,   \* history of the current video
    aborted, skipped, handed, dropped,   \* history of the current run
    log,                      \* collaborator calls of the current run, in order
    written,                  \* chunk id -> texts of the calls that ended in a successful write
    faults, calls

hvars == <<arg, res>>
dvars == <<dir, fault_budget, run_budget, remove_may_fail>>
mvars == <<videos, run, vi>>
svars == <<segments, chunks, i, previous_frame, previous_caption>>
wvars == <<current_frame, visual_caption, ocr_text, audio_text>>
avars == <<call, attempt, ret, events>>
ovars == <<reported_saved, reported_failed>>
gvars == <<captioned, last_caption, failed, frames_seen>>
rvars == <<aborted, skipped, handed, dropped>>

vars == <<hvars, dvars, mvars, pc, svars, wvars, avars, collection, ovars, gvars, rvars,
          log, written, faults, calls>>

NoCall == [chunk_id |-> <<>>, text |-> <<>>, metadata |-> <<>>]

\* Locals of process_single_video before the window loop is entered.
VideoLocalsCleared ==
    /\ segments = <<>> /\ chunks = <<>> /\ i = 0
    /\ previous_frame = NoFrame /\ previous_caption = InitialCaption

WindowLocalsCleared ==
    /\ current_frame = NoFrame /\ visual_caption = "" /\ ocr_text = <<>> /\ audio_text = <<>>

HistoryCleared ==
    /\ captioned = {} /\ last_caption = None /\ failed = {} /\ frames_seen = <<>>

PipelineIdle ==
    /\ videos = <<>> /\ run = 0 /\ vi = 0
    /\ VideoLocalsCleared /\ WindowLocalsCleared /\ HistoryCleared
    /\ call = NoCall /\ attempt = 0 /\ ret = "idle" /\ events = <<>>
    /\ collection = {}
    /\ reported_saved = {} /\ reported_failed = {}
    /\ aborted = {} /\ skipped = {} /\ handed = {} /\ dropped = {} /\ written = {}
    /\ log = <<>>
    /\ faults = 0 /\ calls = 0

CanFail == faults < fault_budget

\* ------------------------------------------------------------------------
\* add_chunk_to_db (embedding_service.py)
\* ------------------------------------------------------------------------
EnterAdd(video_id, start_time, end_time, text, metadata, return_to) ==
    /\ call' = [chunk_id |-> ChunkId(video_id, start_time, end_time),
                text |-> text,
                metadata |-> WithMandatory(metadata, video_id, start_time, end_time)]
    /\ attempt' = 0
    /\ events' = <<>>
    /\ ret' = return_to
    /\ pc' = "add_try"

\* collection.add returns: break out of the retry loop
AddSucceeds ==
    /\ pc = "add_try"
    /\ collection' = StoreAdd(collection, call.chunk_id, call.text, call.metadata)
    /\ events' = Append(events, "ok")
    /\ written' = written \cup {<<call.chunk_id, call.text, Cardinality(written) + 1>>}
    /\ pc' = ret
    /\ UNCHANGED <<log, hvars, dvars, mvars, svars, wvars, call, attempt, ret, ovars, gvars,
                   rvars, faults, calls>>

\* collection.add raises: the except branch
AddFails ==
    /\ pc = "add_try"
    /\ CanFail
    /\ faults' = faults + 1
    /\ IF ~Handled(attempt)
       THEN \* the exception leaves add_chunk_to_db
            /\ events' = events \o <<"fail", "raise">>
            /\ UNCHANGED <<attempt, reported_failed, handed, dropped, skipped>>
            /\ IF ret = "saved"
               THEN /\ aborted' = aborted \cup {<<vi, "add_chunk_to_db">>}
                    /\ segments' = <<>> /\ chunks' = <<>> /\ i' = 0
                    /\ previous_frame' = NoFrame /\ previous_caption' = InitialCaption
                    /\ current_frame' = NoFrame /\ visual_caption' = "" /\ ocr_text' = <<>>
                    /\ audio_text' = <<>>
                    /\ captioned' = {} /\ last_caption' = None /\ failed' = {}
                    /\ frames_seen' = <<>>
                    /\ IF vi < Len(videos) THEN vi' = vi + 1 /\ pc' = "video"
                                            ELSE vi' = vi /\ pc' = "done"
                    /\ UNCHANGED <<videos, run>>
               ELSE /\ pc' = ret
                    /\ UNCHANGED <<mvars, svars, wvars, gvars, aborted>>
       ELSE /\ events' = Append(events, "fail")
            /\ UNCHANGED <<mvars, svars, wvars, gvars, aborted, skipped, handed>>
            /\ IF ShouldRetry(attempt)
               THEN pc' = "add_sleep" /\ UNCHANGED <<attempt, reported_failed, dropped>>
               ELSE /\ reported_failed' = reported_failed \cup {call.chunk_id}
                    /\ IF LoopContinues(attempt)
                       THEN attempt' = attempt + 1 /\ pc' = "add_try" /\ UNCHANGED dropped
                       ELSE /\ attempt' = attempt /\ pc' = ret
                            /\ dropped' = IF ret = "saved" THEN dropped \cup {<<vi, i>>}
                                                           ELSE dropped
    /\ UNCHANGED <<log, hvars, dvars, call, ret, collection, reported_saved, written, calls>>

\* time.sleep(2), then the next iteration of the for loop
AddSleep ==
    /\ pc = "add_sleep"
    /\ events' = Append(events, "sleep")
    /\ IF LoopContinues(attempt)
       THEN attempt' = attempt + 1 /\ pc' = "add_try" /\ UNCHANGED dropped
       ELSE /\ attempt' = attempt /\ pc' = ret
            /\ dropped' = IF ret = "saved" THEN dropped \cup {<<vi, i>>} ELSE dropped
    /\ UNCHANGED <<log, hvars, dvars, mvars, svars, wvars, call, ret, collection, ovars, gvars,
                   aborted, skipped, handed, written, faults, calls>>

\* ------------------------------------------------------------------------
\* main and process_single_video (process_videos.py)
\* ------------------------------------------------------------------------
video_meta == videos[vi]

\* process_single_video is left (return, end of the loop, or an exception
\* caught by main): its locals are gone and main's for loop moves on.
ReturnToMain ==
    /\ segments' = <<>> /\ chunks' = <<>> /\ i' = 0
    /\ previous_frame' = NoFrame /\ previous_caption' = InitialCaption
    /\ current_frame' = NoFrame /\ visual_caption' = "" /\ ocr_text' = <<>> /\ audio_text' = <<>>
    /\ captioned' = {} /\ last_caption' = None /\ failed' = {} /\ frames_seen' = <<>>
    /\ IF vi < Len(videos) THEN vi' = vi + 1 /\ pc' = "video" ELSE vi' = vi /\ pc' = "done"
    /\ UNCHANGED <<videos, run>>

CaughtByMainNever == FALSE

\* except Exception as e, around process_single_video(video)
CaughtByMain == TRUE

\* An exception leaves process_single_video: main's handler prints it and
\* the for loop moves on.
RaiseToMain ==
    IF CaughtByMain THEN ReturnToMain
    ELSE /\ segments' = <<>> /\ chunks' = <<>> /\ i' = 0
         /\ previous_frame' = NoFrame /\ previous_caption' = InitialCaption
         /\ current_frame' = NoFrame /\ visual_caption' = "" /\ ocr_text' = <<>>
         /\ audio_text' = <<>>
         /\ captioned' = {} /\ last_caption' = None /\ failed' = {} /\ frames_seen' = <<>>
         /\ pc' = "crashed"
         /\ UNCHANGED <<videos, run, vi>>

\* videos = ingest_videos(Config.VIDEO_DIR); if not videos: return
IngestVideos ==
    /\ pc = "main"
    /\ \E ids \in VideoIdStreams : videos' = ingest_videos(dir, ids)
    /\ run' = run + 1
    /\ aborted' = {} /\ skipped' = {} /\ handed' = {} /\ dropped' = {}
    /\ IF videos' = <<>> THEN vi' = 0 /\ pc' = "done" ELSE vi' = 1 /\ pc' = "video"
    /\ log' = <<>>
    /\ UNCHANGED <<hvars, dvars, svars, wvars, avars, collection, ovars, gvars, written,
                   faults, calls>>

\* audio_path = extract_audio(video_path); if not audio_path: return
ExtractAudio ==
    /\ pc = "video"
    /\ \/ /\ pc' = "transcribe"
          /\ UNCHANGED <<mvars, svars, wvars, gvars, faults, skipped>>
       \/ /\ CanFail
          /\ faults' = faults + 1
          /\ skipped' = skipped \cup {<<vi, "audio">>}
          /\ ReturnToMain
    /\ log' = Append(log, <<vi, -1, "extract_audio">>)
    /\ UNCHANGED <<hvars, dvars, avars, collection, ovars, aborted, handed, dropped, written,
                   calls>>

\* segments = transcribe_audio(audio_path)
TranscribeAudio ==
    /\ pc = "transcribe"
    /\ log' = Append(log, <<vi, -1, "transcribe_audio">>)
    /\ \E result \in {TranscriptOf(video_meta), <<>>} :
          /\ result = <<>> => CanFail
          /\ faults' = IF result = <<>> THEN faults + 1 ELSE faults
          /\ segments' = result
    /\ pc' = "cleanup"
    /\ UNCHANGED <<hvars, dvars, mvars, chunks, i, previous_frame, previous_caption, wvars,
                   avars, collection, ovars, gvars, rvars, written, calls>>

\* if os.path.exists(audio_path): try: os.remove(audio_path), except
\* PermissionError: warning; if not segments: return; scene state set up;
\* chunks = create_sliding_windows(duration, 20, 10).  The file that
\* extract_audio has just written exists.
RemoveAudio ==
    /\ pc = "cleanup"
    /\ \E outcome \in RemoveOutcomes :
          /\ outcome # "removed" => (CanFail /\ remove_may_fail)
          /\ faults' = IF outcome = "removed" THEN faults ELSE faults + 1
          /\ log' = IF outcome = "removed"
                    THEN Append(log, <<vi, -1, "os.remove">>)
                    ELSE log \o << <<vi, -1, "os.remove">>, <<vi, -1, outcome>> >>
          /\ skipped' = IF segments = <<>> THEN skipped \cup {<<vi, "transcript">>} ELSE skipped
          /\ IF ~WarningOnly(outcome)
             THEN /\ aborted' = aborted \cup {<<vi, "os.remove">>}
                  /\ RaiseToMain
             ELSE /\ UNCHANGED aborted
                  /\ IF NoTranscript(segments)
                     THEN ReturnToMain
                     ELSE LET windows == create_sliding_windows(
                                             Thousandths(video_meta.duration_seconds),
                                             pipeline_window_size, pipeline_step_size)
                          IN IF windows = <<>>
                             THEN ReturnToMain
                             ELSE /\ previous_frame' = InitialPreviousFrame
                                  /\ previous_caption' = InitialCaption
                                  /\ chunks' = windows
                                  /\ i' = 0 /\ pc' = "frame"
                                  /\ UNCHANGED <<mvars, segments, wvars, gvars>>
    /\ UNCHANGED <<hvars, dvars, avars, collection, ovars, handed, dropped, written, calls>>

\* steps A and B up to the keyframe: audio_text, midpoint, extract_frame_at_time
ExtractFrame ==
    /\ pc = "frame"
    /\ audio_text' = AudioText(segments, chunks[i + 1].start, chunks[i + 1].end)
    /\ visual_caption' = ""
    /\ ocr_text' = <<>>
    /\ \E frame \in Frames \cup {NoFrame} :
          /\ current_frame' = frame
          /\ frames_seen' = Append(frames_seen, frame)
          /\ IF frame = NoFrame
             THEN /\ CanFail
                  /\ faults' = faults + 1
                  /\ failed' = failed \cup {<<i, "keyframe">>}
             ELSE UNCHANGED <<failed, faults>>
          /\ pc' = IF FrameAvailable(frame) THEN "gate" ELSE "ner"
    /\ log' = Append(log, <<vi, i, "extract_frame_at_time">>)
    /\ UNCHANGED <<hvars, dvars, mvars, svars, avars, collection, ovars, captioned,
                   last_caption, rvars, written, calls>>

\* the gate opens: visual_caption = generate_visual_caption(current_frame)
CaptionCall ==
    /\ pc = "gate"
    /\ SceneChanged(i, get_frame_difference(previous_frame, current_frame))
    /\ \E result \in {CaptionOf(current_frame), CaptionError} :
          /\ result = CaptionError => CanFail
          /\ faults' = IF result = CaptionError THEN faults + 1 ELSE faults
          /\ failed' = IF result = CaptionError THEN failed \cup {<<i, "caption">>} ELSE failed
          /\ visual_caption' = result
          /\ previous_caption' = result
          /\ last_caption' = result
    /\ previous_frame' = current_frame
    /\ captioned' = captioned \cup {i}
    /\ pc' = StepAfterGate(TRUE)
    /\ log' = Append(log, <<vi, i, "generate_visual_caption">>)
    /\ UNCHANGED <<hvars, dvars, mvars, segments, chunks, i, current_frame, ocr_text,
                   audio_text, avars, collection, ovars, frames_seen, rvars, written, calls>>

\* the gate stays shut: visual_caption = previous_caption
CaptionReuse ==
    /\ pc = "gate"
    /\ ~SceneChanged(i, get_frame_difference(previous_frame, current_frame))
    /\ visual_caption' = previous_caption
    /\ previous_frame' = ReferenceFrame(previous_frame, current_frame)
    /\ pc' = StepAfterGate(FALSE)
    /\ UNCHANGED <<log, hvars, dvars, mvars, segments, chunks, i, previous_caption, current_frame,
                   ocr_text, audio_text, avars, collection, ovars, gvars, rvars, written,
                   faults, calls>>

\* ocr_text = extract_text_from_frame(current_frame)
ExtractText ==
    /\ pc = "ocr"
    /\ \/ /\ ocr_text' = Strip(Join(readtext(current_frame)))
          /\ UNCHANGED <<failed, faults>>
       \/ /\ CanFail
          /\ faults' = faults + 1
          /\ ocr_text' = <<>>
          /\ failed' = failed \cup {<<i, "ocr">>}
    /\ pc' = "ner"
    /\ log' = Append(log, <<vi, i, "extract_text_from_frame">>)
    /\ UNCHANGED <<hvars, dvars, mvars, svars, current_frame, visual_caption, audio_text,
                   avars, collection, ovars, captioned, last_caption, frames_seen, rvars,
                   written, calls>>

\* entities = extract_entities(audio_text); final_text; add_chunk_to_db(...)
ExtractEntities ==
    /\ pc = "ner"
    /\ EnterAdd(video_meta.video_id, chunks[i + 1].start, chunks[i + 1].end,
                FinalText(visual_caption, ocr_text, audio_text),
                PipelineMetadata(video_meta.filename, extract_entities(audio_text)),
                "saved")
    /\ handed' = handed \cup {<<vi, i>>}
    /\ log' = log \o << <<vi, i, "extract_entities">>, <<vi, i, "add_chunk_to_db">> >>
    /\ UNCHANGED <<hvars, dvars, mvars, svars, wvars, collection, ovars, gvars, aborted,
                   skipped, dropped, written, faults, calls>>

\* nlp(text) raises: nothing in process_single_video catches it, main does
EntitiesRaise ==
    /\ pc = "ner"
    /\ audio_text # <<>>
    /\ CanFail
    /\ faults' = faults + 1
    /\ aborted' = aborted \cup {<<vi, "extract_entities">>}
    /\ RaiseToMain
    /\ log' = Append(log, <<vi, i, "extract_entities">>)
    /\ UNCHANGED <<hvars, dvars, avars, collection, ovars, skipped, handed, dropped, written,
                   calls>>

\* add_chunk_to_db has returned: print "Saved Chunk", next window
SavedChunk ==
    /\ pc = "saved"
    /\ reported_saved' = reported_saved \cup {call.chunk_id}
    /\ call' = NoCall /\ attempt' = 0 /\ events' = <<>> /\ ret' = "idle"
    /\ IF i + 1 < Len(chunks)
       THEN /\ i' = i + 1 /\ pc' = "frame"
            /\ current_frame' = NoFrame /\ visual_caption' = "" /\ ocr_text' = <<>>
            /\ audio_text' = <<>>
            /\ UNCHANGED <<mvars, segments, chunks, previous_frame, previous_caption, gvars>>
       ELSE ReturnToMain
    /\ log' = Append(log, <<vi, i, "returned">>)
    /\ UNCHANGED <<hvars, dvars, collection, reported_failed, rvars, written, faults, calls>>

\* the script is started again over the same folder
RunAgain ==
    /\ pc = "done"
    /\ run < run_budget
    /\ pc' = "main"
    /\ UNCHANGED <<log, hvars, dvars, mvars, svars, wvars, avars, collection, ovars, gvars, rvars,
                   written, faults, calls>>

Init ==
    /\ arg = <<>> /\ res = <<>>
    /\ dir \in Directories
    /\ fault_budget = MaxFaults
    /\ run_budget = 1
    /\ remove_may_fail = FALSE
    /\ pc = "main"
    /\ PipelineIdle

Next ==
    \/ IngestVideos
    \/ ExtractAudio
    \/ TranscribeAudio
    \/ RemoveAudio
    \/ ExtractFrame
    \/ CaptionCall
    \/ CaptionReuse
    \/ ExtractText
    \/ ExtractEntities
    \/ EntitiesRaise
    \/ AddSucceeds
    \/ AddFails
    \/ AddSleep
    \/ SavedChunk

Spec == Init /\ [][Next]_vars

\* The batch script run again over a folder it has already indexed.
InitRerun ==
    /\ arg = <<>> /\ res = <<>>
    /\ dir \in RerunDirectories
    /\ fault_budget = MaxRerunFaults
    /\ run_budget = MaxRuns
    /\ remove_may_fail = FALSE
    /\ pc = "main"
    /\ PipelineIdle

NextRerun == Next \/ RunAgain

SpecRerun == InitRerun /\ [][NextRerun]_vars

\* The batch script on a machine where deleting the temporary audio file
\* may fail.
InitCleanup ==
    /\ arg = <<>> /\ res = <<>>
    /\ dir \in RerunDirectories
    /\ fault_budget = MaxCleanupFaults
    /\ run_budget = 1
    /\ remove_may_fail = TRUE
    /\ pc = "main"
    /\ PipelineIdle

SpecCleanup == InitCleanup /\ [][Next]_vars

\* A batch of several videos, under the assumption that every collaborator
\* call returns or raises: a step that can be taken is eventually taken.
BatchDirectories ==
    {Named(<<OneWindow, NoFrameRate, OneWindow>>), Named(<<OneWindow, TwoWindows>>)}

InitBatch ==
    /\ arg = <<>> /\ res = <<>>
    /\ dir \in BatchDirectories
    /\ fault_budget = MaxBatchFaults
    /\ run_budget = 1
    /\ remove_may_fail = TRUE
    /\ pc = "main"
    /\ PipelineIdle

SpecBatch == InitBatch /\ [][Next]_vars /\ WF_vars(Next)

\* ------------------------------------------------------------------------
\* create_sliding_windows on its own
\* ------------------------------------------------------------------------
WindowSizes == {1, 2, 3, 5, 10, 20}

\* Durations off the rounding ties, so that round(x, 2) does not depend on
\* the binary expansion of x; negative ones included.
WindowDurations ==
    {sec * Milli + frac : sec \in (-1)..MaxSeconds, frac \in {0, 6, 10, 500, 994}}

NoFolder ==
    /\ dir = <<>> /\ fault_budget = 0 /\ run_budget = 0 /\ remove_may_fail = FALSE
    /\ PipelineIdle

InitWindows ==
    /\ arg \in [video_duration : WindowDurations, window_size : WindowSizes,
                step_size : WindowSizes]
    /\ res = <<>>
    /\ pc = "call"
    /\ NoFolder

ApplyWindows ==
    /\ pc = "call"
    /\ "video_duration" \in DOMAIN arg
    /\ res' = create_sliding_windows(arg.video_duration, arg.window_size, arg.step_size)
    /\ pc' = "returned"
    /\ UNCHANGED <<arg, dvars, mvars, svars, wvars, avars, collection, ovars, gvars, rvars,
                   log, written, faults, calls>>

NextWindows == ApplyWindows

SpecWindows == InitWindows /\ [][NextWindows]_vars

\* ------------------------------------------------------------------------
\* Audio alignment on its own
\* ------------------------------------------------------------------------
AlignTimes == {0, 400, 500, 600, 1000}

Intervals == {iv \in [start : AlignTimes, end : AlignTimes] : iv.start < iv.end}

Words == <<"Ann", "met", "Bob", "today">>

\* Transcripts as the transcription service returns them: ordered by start
\* time; the k-th segment says the k-th word, after a leading blank.
AlignTranscripts ==
    {[k \in 1..Len(ivs) |-> [start |-> ivs[k].start, end |-> ivs[k].end,
                             text |-> <<SP, Words[k]>>]] :
        ivs \in {s \in SeqsUpTo(Intervals, MaxSegments) :
                    \A k \in 1..(Len(s) - 1) : s[k].start <= s[k + 1].start}}

InitAlign ==
    /\ arg \in [segments : AlignTranscripts, window : Intervals]
    /\ res = <<>>
    /\ pc = "call"
    /\ NoFolder

ApplyAlign ==
    /\ pc = "call"
    /\ "segments" \in DOMAIN arg
    /\ res' = AudioText(arg.segments, arg.window.start, arg.window.end)
    /\ pc' = "returned"
    /\ UNCHANGED <<arg, dvars, mvars, svars, wvars, avars, collection, ovars, gvars, rvars,
                   log, written, faults, calls>>

NextAlign == ApplyAlign

SpecAlign == InitAlign /\ [][NextAlign]_vars

\* ------------------------------------------------------------------------
\* extract_entities on its own
\* ------------------------------------------------------------------------
EntityTokens == {"Ann", "Bob", "UN", "Baku", "2024", "met", NL}

EntityTexts == SeqsUpTo(EntityTokens, MaxTokens)

InitEntities ==
    /\ arg \in [text : EntityTexts]
    /\ res = <<>>
    /\ pc = "call"
    /\ NoFolder

ApplyEntities ==
    /\ pc = "call"
    /\ DOMAIN arg = {"text"}
    /\ res' = extract_entities(arg.text)
    /\ pc' = "returned"
    /\ UNCHANGED <<arg, dvars, mvars, svars, wvars, avars, collection, ovars, gvars, rvars,
                   log, written, faults, calls>>

NextEntities == ApplyEntities

SpecEntities == InitEntities /\ [][NextEntities]_vars

\* ------------------------------------------------------------------------
\* add_chunk_to_db called directly, as in the module's own test block
\* ------------------------------------------------------------------------
IndexerVideoIds == {"1a2b3c4d", "9f8e7d6c"}

IndexerWindows == {[start |-> 0, end |-> 2000], [start |-> 1000, end |-> 2500]}

IndexerTexts ==
    {FinalText("anchor in studio", <<>>, <<"Ann", "met", "UN">>),
     FinalText("reporter outdoors", <<"BREAKING">>, <<>>)}

InitIndexer ==
    /\ arg = <<>> /\ res = <<>>
    /\ dir = <<>>
    /\ fault_budget = MaxCalls * max_retries
    /\ run_budget = 0
    /\ remove_may_fail = FALSE
    /\ pc = "idle"
    /\ PipelineIdle

\* add_chunk_to_db(video_id, start_time, end_time, text) with metadata=None
CallAdd ==
    /\ pc = "idle"
    /\ calls < MaxCalls
    /\ calls' = calls + 1
    /\ \E video_id \in IndexerVideoIds, window \in IndexerWindows, text \in IndexerTexts :
          EnterAdd(video_id, window.start, window.end, text, <<>>, "idle")
    /\ UNCHANGED <<log, hvars, dvars, mvars, svars, wvars, collection, ovars, gvars, rvars,
                   written, faults>>

NextIndexer == CallAdd \/ AddSucceeds \/ AddFails \/ AddSleep

SpecIndexer == InitIndexer /\ [][NextIndexer]_vars

\* ------------------------------------------------------------------------
\* generate_answer (rag_search.py)
\* ------------------------------------------------------------------------
InsufficientInformation == "I could not find enough information in the videos to answer that."
ErrorGeneratingResponse == "Error generating response."
ErrorOccurred == "An error occurred while generating the answer."

SystemPrompt == "You are a helpful news assistant."

\* context_text += f"- {chunk}\n", for each chunk
RECURSIVE ContextText(_)
ContextText(relevant_chunks) ==
    IF relevant_chunks = <<>> THEN <<>>
    ELSE <<"- ">> \o Head(relevant_chunks) \o <<NL>> \o ContextText(Tail(relevant_chunks))

UserMessage(context_text, user_query) ==
    <<"Context from videos:">> \o context_text \o <<"Question:">> \o user_query

SkipsCollaboratorNever(relevant_chunks) == FALSE

\* if not relevant_chunks
SkipsCollaborator(relevant_chunks) == relevant_chunks = <<>>

FalsyNoneOnly(answer) == answer = None

\* answer if answer else ...: None and the empty string are falsy
Falsy(answer) == answer \in {None, ""}

\* What response.choices[0].message.content may hold
Contents == {"Ann met the UN in Baku.", "I do not have that information.", "", None}

Queries == {<<"Who", "met", "Ann", "?">>, <<>>}

RetrievedTexts ==
    {FinalText("anchor in studio", <<>>, <<"Ann", "met", "UN">>),
     FinalText("reporter outdoors", <<"BREAKING">>, <<>>),
     FinalText("", <<>>, <<>>)}

InitAnswer ==
    /\ arg \in [user_query : Queries, relevant_chunks : SeqsUpTo(RetrievedTexts, MaxChunks)]
    /\ res = <<>>
    /\ pc = "call"
    /\ NoFolder

\* generate_answer up to the request to the language model
GenerateAnswer ==
    /\ pc = "call"
    /\ DOMAIN arg = {"user_query", "relevant_chunks"}
    /\ IF SkipsCollaborator(arg.relevant_chunks)
       THEN /\ res' = InsufficientInformation
            /\ pc' = "returned"
            /\ UNCHANGED log
       ELSE /\ log' = Append(log, [system |-> SystemPrompt,
                                   user |-> UserMessage(ContextText(arg.relevant_chunks),
                                                        arg.user_query)])
            /\ pc' = "chat"
            /\ UNCHANGED res
    /\ UNCHANGED <<arg, dvars, mvars, svars, wvars, avars, collection, ovars, gvars, rvars,
                   written, faults, calls>>

\* client.chat.completions.create returns a response
ChatCompletes ==
    /\ pc = "chat"
    /\ \E answer \in Contents :
          /\ res' = IF Falsy(answer) THEN ErrorGeneratingResponse ELSE answer
          /\ events' = Append(events, <<"content", answer>>)
    /\ pc' = "returned"
    /\ UNCHANGED <<arg, dvars, mvars, svars, wvars, call, attempt, ret, collection, ovars,
                   gvars, rvars, log, written, faults, calls>>

\* client.chat.completions.create raises: except Exception
ChatRaises ==
    /\ pc = "chat"
    /\ res' = ErrorOccurred
    /\ events' = Append(events, <<"raise">>)
    /\ pc' = "returned"
    /\ UNCHANGED <<arg, dvars, mvars, svars, wvars, call, attempt, ret, collection, ovars,
                   gvars, rvars, log, written, faults, calls>>

NextAnswer == GenerateAnswer \/ ChatCompletes \/ ChatRaises

SpecAnswer == InitAnswer /\ [][NextAnswer]_vars

\* ------------------------------------------------------------------------
\* Properties
\* ------------------------------------------------------------------------
\* The frame the pipeline holds as previous_frame when it reaches the k-th
\* keyframe of the video: the last keyframe before it that was available.
RECURSIVE RetainedBefore(_, _)
RetainedBefore(frames, k) ==
    IF k <= 1 THEN NoFrame
    ELSE IF frames[k - 1] # NoFrame THEN frames[k - 1]
    ELSE RetainedBefore(frames, k - 1)

\* The gate has been passed (or skipped) for the k-th keyframe seen.
GateDecided(k) == k < Len(frames_seen) \/ pc # "gate"

RecordAssembled == pc = "add_try" /\ ret = "saved"

GateOnIdenticalFrames ==
    (/\ frames_seen # <<>>
     /\ \A k \in 1..Len(frames_seen) :
           frames_seen[k] # NoFrame /\ frames_seen[k] = frames_seen[1])
    => captioned = IF GateDecided(1) THEN {0} ELSE {}

GateOnChangedFrame ==
    \A k \in 2..Len(frames_seen) :
        (/\ GateDecided(k)
         /\ frames_seen[k] # NoFrame
         /\ RetainedBefore(frames_seen, k) # NoFrame
         /\ get_frame_difference(RetainedBefore(frames_seen, k), frames_seen[k])
               > scene_change_threshold)
        => (k - 1) \in captioned

\* C1 (as stated): scene-change gate.  With every keyframe available and all
\* keyframes identical the caption collaborator is invoked exactly once, for
\* the first window; a later window whose keyframe differs from the retained
\* frame by more than the threshold invokes it again; and in EVERY window
\* where it is not invoked the record's visual description is the result of
\* the most recent caption call of the video.
C1_Original_ReuseInEveryUncaptionedWindow ==
    /\ GateOnIdenticalFrames
    /\ GateOnChangedFrame
    /\ (RecordAssembled /\ i \notin captioned /\ last_caption # None)
          => VisualOf(call.text) = last_caption

\* C1 (amended): as above, but the reuse holds for the windows whose keyframe
\* is available; a window without a keyframe has an empty visual description.
C1_SceneChangeGate ==
    /\ GateOnIdenticalFrames
    /\ GateOnChangedFrame
    /\ (RecordAssembled /\ i \notin captioned /\ current_frame # NoFrame)
          => (last_caption # None /\ VisualOf(call.text) = last_caption)
    /\ (RecordAssembled /\ current_frame = NoFrame) => VisualOf(call.text) = ""

\* Third window of a video: the second keyframe equalled the first and was
\* not captioned, the third differs and was captioned again.
C1_Witness ==
    /\ RecordAssembled /\ i = 2
    /\ Len(frames_seen) = 3
    /\ frames_seen[1] # NoFrame /\ frames_seen[2] = frames_seen[1]
    /\ frames_seen[3] # NoFrame
    /\ get_frame_difference(frames_seen[2], frames_seen[3]) > scene_change_threshold
    /\ captioned = {0, 2}
    /\ VisualOf(call.text) = last_caption

IsLatestWrite(w) == \A x \in written : x[1] = w[1] => x[3] <= w[3]

\* C2: indexer idempotence.  When no call is in progress, every identity
\* that was committed successfully has exactly one record in the store, and
\* that record's content is the text of the latest successful commit.
C2_LatestContentStored ==
    pc = "idle" =>
        \A w \in written :
            IsLatestWrite(w) =>
                /\ Cardinality({r \in collection : r.id = w[1]}) = 1
                /\ \A r \in collection : r.id = w[1] => r.document = w[2]

WriteAttempts == {k \in 1..Len(events) : events[k] # "sleep"}

FailedTwiceThenStored == events = <<"fail", "sleep", "fail", "sleep", "ok">>

\* C3: indexer resilience.  One call makes at most max_retries write
\* attempts, none after a successful one; and when the first two attempts
\* fail and the third succeeds the record is in the store.
C3_BoundedRetry ==
    /\ Cardinality(WriteAttempts) <= max_retries
    /\ \A k \in 1..Len(events) : events[k] = "ok" => k = Len(events)
    /\ FailedTwiceThenStored =>
          /\ call.chunk_id \in Ids(collection)
          /\ Cardinality({w \in written : w[1] = call.chunk_id}) = 1
                => Entry(call.chunk_id, call.text, call.metadata) \in collection

C3_Witness ==
    /\ FailedTwiceThenStored
    /\ pc = "idle"
    /\ Entry(call.chunk_id, call.text, call.metadata) \in collection

WindowsReturned == pc = "returned" /\ "video_duration" \in DOMAIN arg

Contiguous(windows) ==
    /\ windows # <<>> => windows[1].start = 0
    /\ \A k \in 1..(Len(windows) - 1) :
          /\ windows[k + 1].start <= windows[k].end
          /\ windows[k].end <= windows[k + 1].end

CoveredUpTo(windows) == IF windows = <<>> THEN 0 ELSE Last(windows).end

\* C4 (as stated): for every D > 0, W > 0, S > 0 the windows cover [0, D]
\* and the last window ends exactly at D.
C4_Original_CoversWholeDuration ==
    (WindowsReturned /\ arg.video_duration > 0) =>
        /\ res # <<>>
        /\ Contiguous(res)
        /\ Thousandths(CoveredUpTo(res)) = arg.video_duration

\* C4 (amended): for every D > 0 and W >= S > 0 the windows cover [0, E]
\* without a gap, where E is the end of the last window (0 if there is
\* none), E is at most D rounded to two decimals and D - E is less than one
\* second: only a tail shorter than the one-second floor is dropped.
C4_CoversUpToSubSecondTail ==
    (WindowsReturned /\ arg.video_duration > 0 /\ arg.window_size >= arg.step_size) =>
        /\ Contiguous(res)
        /\ CoveredUpTo(res) <= RoundHundredths(arg.video_duration)
        /\ arg.video_duration - Thousandths(CoveredUpTo(res)) < 1 * Milli

\* Several windows, and a tail of the video that no window reaches.
C4_Witness ==
    /\ WindowsReturned
    /\ arg.window_size >= arg.step_size
    /\ Len(res) >= 2
    /\ Thousandths(CoveredUpTo(res)) < arg.video_duration

TwentyFiveSeconds ==
    /\ WindowsReturned
    /\ arg = [video_duration |-> 25 * Milli, window_size |-> 20, step_size |-> 10]

\* C5 (as stated): a 25-second video with window_size=20, step_size=10
\* yields exactly the windows [0,20] and [20,25].
C5_Original_SecondWindowStartsAt20 ==
    TwentyFiveSeconds =>
        res = << [start |-> 0, end |-> 20 * Centi],
                 [start |-> 20 * Centi, end |-> 25 * Centi] >>

\* C5 (amended): it yields exactly the windows [0,20] and [10,25].
C5_SecondWindowStartsAt10 ==
    TwentyFiveSeconds =>
        res = << [start |-> 0, end |-> 20 * Centi],
                 [start |-> 10 * Centi, end |-> 25 * Centi] >>

C5_Witness == TwentyFiveSeconds /\ Len(res) = 2

AlignReturned == pc = "returned" /\ "segments" \in DOMAIN arg

\* C6: a segment's text is part of the window's audio text exactly when
\* segment.start < window.end and segment.end > window.start, and the texts
\* appear in segment order.
C6_BoundaryExclusiveAlignment ==
    AlignReturned =>
        /\ \A k \in 1..Len(arg.segments) :
              (Words[k] \in Range(res))
                 <=> (/\ arg.segments[k].start < arg.window.end
                      /\ arg.segments[k].end > arg.window.start)
        /\ \A p, q \in 1..Len(res) : \A k, l \in 1..Len(arg.segments) :
              (res[p] = Words[k] /\ res[q] = Words[l] /\ k < l) => p < q

\* Segment [5,10] against window [4,6]: included; a segment that only
\* touches the window's start is in the same transcript and is left out.
C6_Witness ==
    /\ AlignReturned
    /\ arg.window = [start |-> 400, end |-> 600]
    /\ Len(arg.segments) = 2
    /\ arg.segments[1].start = 0 /\ arg.segments[1].end = 400
    /\ arg.segments[2].start = 500 /\ arg.segments[2].end = 1000
    /\ res = <<Words[2]>>

\* C7: re-running ingestion over an already indexed folder does not grow the
\* number of records stored for a video file: at most one record per window.
C7_RerunDoesNotGrowStore ==
    \A k \in 1..Len(dir) :
        Cardinality({r \in collection : r.metadata.filename = dir[k].filename})
            <= WindowsOfFile(dir[k])

\* C8: a failure of keyframe extraction, captioning, OCR or entity
\* extraction in one window never aborts the video, and the default value
\* of a failed caption call appears only in the record of the window whose
\* call failed.
C8_FailureStaysInItsWindow ==
    /\ \A a \in aborted : a[2] # "extract_entities"
    /\ (RecordAssembled /\ VisualOf(call.text) = CaptionError) => <<i, "caption">> \in failed

WindowsOfVideo(v) ==
    create_sliding_windows(Thousandths(videos[v].duration_seconds), pipeline_window_size,
                           pipeline_step_size)

LeftEarly(v) == \E x \in skipped \cup aborted : x[1] = v

\* C9: a record whose write attempts all failed never aborts anything:
\* add_chunk_to_db returns to its caller, which goes on, and when the batch
\* is over every window of every video that was not given up for another
\* reason has been handed to add_chunk_to_db.
C9_DroppedRecordNeverAborts ==
    /\ \A a \in aborted : a[2] # "add_chunk_to_db"
    /\ \A d \in dropped :
          /\ d \in handed
          /\ \/ pc = "done"
             \/ vi > d[1]
             \/ vi = d[1] /\ i > d[2]
             \/ vi = d[1] /\ i = d[2] /\ pc = "saved"
    /\ pc = "done" =>
          \A v \in 1..Len(videos) :
              ~LeftEarly(v) => \A k \in 1..Len(WindowsOfVideo(v)) : <<v, k - 1>> \in handed

\* The batch is over; a record was dropped and a later window or video was
\* still handed to the indexer.
C9_Witness ==
    /\ pc = "done"
    /\ \E d \in dropped : \E h \in handed :
          /\ h[1] > d[1] \/ (h[1] = d[1] /\ h[2] > d[2])
          /\ \E r \in collection :
                r.metadata.filename = videos[h[1]].filename
                /\ r.metadata.start_time = WindowsOfVideo(h[1])[h[2] + 1].start

\* C10: the pipeline reports a window as saved only if its record was
\* actually stored.
C10_SavedOnlyIfStored == reported_saved \subseteq Ids(collection)

CallsOf(v) == SelectSeq(log, LAMBDA e : e[1] = v)

RecordsOf(v) == {r \in collection : r.metadata.video_id = videos[v].video_id}

MovedPast(v) == vi > v \/ (v = Len(videos) /\ pc = "done")

\* C11: a video whose audio extraction failed or whose transcription
\* returned nothing has no record in the store, no caption, OCR, entity or
\* other per-window collaborator was invoked for it, and the batch loop has
\* gone on to the next video (or ended, after the last one).
C11_TranscriptFailureSkipsOnlyThatVideo ==
    \A sk \in skipped :
        /\ \A k \in 1..Len(log) :
              log[k][1] = sk[1] =>
                  log[k][3] \in {"extract_audio", "transcribe_audio", "os.remove"}
                                  \cup RemoveOutcomes
        /\ RecordsOf(sk[1]) = {}
        /\ MovedPast(sk[1])

\* The transcription of one video returned nothing and a later video of the
\* same batch has a record in the store.
C11_Witness ==
    \E sk \in skipped :
        /\ sk[2] = "transcript"
        /\ \E w \in (sk[1] + 1)..Len(videos) : RecordsOf(w) # {}

Unreadable(file) == ~file.isOpened \/ file.fps <= 0

\* C12: for a file that cannot be opened or whose frame rate is not
\* positive, no collaborator (audio extraction, transcription or any
\* other) is called and no record is committed.
C12_UnreadableMediaSkipped ==
    \A k \in 1..Len(dir) :
        Unreadable(dir[k]) =>
            \A v \in 1..Len(videos) :
                videos[v].filename = dir[k].filename =>
                    CallsOf(v) = <<>> /\ RecordsOf(v) = {}

TranscriptObtained(v) == <<v, "audio">> \notin skipped /\ <<v, "transcript">> \notin skipped

AddCalls(v) == SelectSeq(log, LAMBDA e : e[1] = v /\ e[3] = "add_chunk_to_db")

\* C13: a video whose transcript was obtained and whose processing is over
\* has had exactly one add_chunk_to_db call per window, in window order; and
\* whenever a collaborator is called for window j+1, the call for window j
\* has returned.
C13_OneCallPerWindowInOrder ==
    /\ \A v \in 1..Len(videos) :
          (MovedPast(v) /\ TranscriptObtained(v)) =>
              /\ Len(AddCalls(v)) = Len(WindowsOfVideo(v))
              /\ \A k \in 1..Len(AddCalls(v)) : AddCalls(v)[k][2] = k - 1
    /\ \A q \in 1..Len(log) :
          log[q][2] >= 1 =>
              \E p \in 1..(q - 1) : log[p] = <<log[q][1], log[q][2] - 1, "returned">>

LabelsInOrder(text) ==
    /\ text # <<>>
    /\ text[1] = "[Visual Scene]:"
    /\ \E p2 \in 2..Len(text) :
          /\ text[p2] = "[On-Screen Text]:"
          /\ \E p3 \in (p2 + 1)..Len(text) : text[p3] = "[Audio Transcript]:"

\* C14: the text of every record handed to the store, and of every record
\* in it, holds the labels [Visual Scene]:, [On-Screen Text]: and
\* [Audio Transcript]: in this order, whatever the three signals yielded.
C14_ThreeLabelledSections ==
    /\ call # NoCall => LabelsInOrder(call.text)
    /\ \A r \in collection : LabelsInOrder(r.document)

\* A stored record of a window with no keyframe (hence no caption and no
\* OCR text) and no overlapping transcript segment.
C14_Witness ==
    \E r \in collection :
        /\ LabelsInOrder(r.document)
        /\ Len(r.document) = 4
        /\ r.document[2] = ""

Length(window) == window.end - window.start

\* C15: consecutive windows start exactly step_size apart; clipping by the
\* duration changes a window's end, never its start.
C15_StepCheck ==
    WindowsReturned =>
        \A k \in 1..(Len(res) - 1) :
            res[k + 1].start = res[k].start + arg.step_size * Centi

\* Overlapping windows, the last of which is clipped by the duration.
C15_Witness ==
    /\ WindowsReturned
    /\ Len(res) >= 2
    /\ arg.step_size < arg.window_size
    /\ Length(Last(res)) < arg.window_size * Centi

\* C16: every returned window has start < end, is at most window_size
\* long, at least one second long, and ends no later than the duration.
C16_WindowLengthBounds ==
    WindowsReturned =>
        \A k \in 1..Len(res) :
            /\ res[k].start < res[k].end
            /\ Length(res[k]) <= arg.window_size * Centi
            /\ Length(res[k]) >= 1 * Centi
            /\ Thousandths(res[k].end) <= arg.video_duration

\* C17: every window but the last is exactly window_size long.
C17_InteriorWindowSize ==
    WindowsReturned =>
        \A k \in 1..(Len(res) - 1) : Length(res[k]) = arg.window_size * Centi

\* Two full windows followed by a shorter last one.
C17_Witness ==
    /\ WindowsReturned
    /\ Len(res) = 3
    /\ Length(res[2]) = arg.window_size * Centi
    /\ Length(res[3]) < arg.window_size * Centi

\* C18: the windows are strictly increasing in start time, the first one
\* starts at 0, and a duration of 0 or less yields no window.
C18_WindowOrdering ==
    WindowsReturned =>
        /\ \A k \in 1..(Len(res) - 1) : res[k].start < res[k + 1].start
        /\ res # <<>> => res[1].start = 0
        /\ arg.video_duration <= 0 => res = <<>>

\* Four or more windows returned.
C18_Witness ==
    /\ WindowsReturned
    /\ Len(res) >= 4
    /\ res[1].start = 0
    /\ res[1].start < res[4].start

\* A negative duration was passed and nothing came back.
C18_WitnessNegative == WindowsReturned /\ arg.video_duration < 0 /\ res = <<>>

EntitiesReturned == pc = "returned" /\ DOMAIN arg = {"text"}

\* The trimmed texts of the entities the recognizer reported with a label,
\* in the order it reported them.
ReportedAs(text, label) ==
    LET ents == SelectSeq(nlp(text), LAMBDA e : e.label = label)
    IN [k \in 1..Len(ents) |-> Strip(ents[k].text)]

FirstIndex(seq, x) == CHOOSE k \in 1..Len(seq) : seq[k] = x /\ \A j \in 1..(k - 1) : seq[j] # x

\* C19: each of the lists PERSON, ORG and GPE holds no string twice, holds
\* exactly the trimmed texts the recognizer reported with that label, and
\* orders them by first occurrence; entities with another label are in no
\* list.
C19_EntityDeduplication ==
    EntitiesReturned =>
        /\ DOMAIN res = {"PERSON", "ORG", "GPE"}
        /\ \A label \in DOMAIN res :
              LET list == res[label]
                  reported == ReportedAs(arg.text, label)
              IN /\ \A p, q \in 1..Len(list) : p < q => list[p] # list[q]
                 /\ Range(list) = Range(reported)
                 /\ \A p, q \in 1..Len(list) :
                       p < q => FirstIndex(reported, list[p]) < FirstIndex(reported, list[q])
        /\ \A label \in DOMAIN res : <<"2024">> \notin Range(res[label])

\* The same person is named twice, once before a line break, with a date
\* in between.
C19_Witness ==
    /\ EntitiesReturned
    /\ arg.text = <<"Ann", NL, "2024", "Ann">>
    /\ res["PERSON"] = << <<"Ann">> >>

AnswerCall == DOMAIN arg = {"user_query", "relevant_chunks"}

\* C20: generate_answer makes no request to the language model when the
\* list of retrieved records is empty, and returns the fixed "could not find
\* enough information" string; with a non-empty list it makes exactly one
\* request, whether that request succeeds or fails.
C20_SynthesisCallCount ==
    AnswerCall =>
        /\ Len(log) <= 1
        /\ (pc = "returned" /\ arg.relevant_chunks = <<>>) =>
              log = <<>> /\ res = InsufficientInformation
        /\ (pc = "returned" /\ arg.relevant_chunks # <<>>) => Len(log) = 1
        /\ pc = "chat" => Len(log) = 1

\* The single request of a call with retrieved records failed, and the
\* function returned without another one.
C20_Witness ==
    /\ AnswerCall
    /\ pc = "returned"
    /\ arg.relevant_chunks # <<>>
    /\ res = ErrorOccurred
    /\ Len(log) = 1

\* A call with no retrieved record has returned.
C20_WitnessEmpty ==
    /\ AnswerCall
    /\ pc = "returned"
    /\ arg.relevant_chunks = <<>>
    /\ log = <<>>

\* C21: generate_answer always returns a string: the fixed not-enough-
\* information string without retrieved records; otherwise the language
\* model's text verbatim when it returned one, and a fixed degraded-answer
\* string when it returned empty content or the request failed.
C21_SynthesisNeverRaises ==
    (AnswerCall /\ pc = "returned") =>
        IF arg.relevant_chunks = <<>>
        THEN res = InsufficientInformation /\ events = <<>>
        ELSE /\ Len(events) = 1
             /\ events[1] = <<"raise">> => res = ErrorOccurred
             /\ events[1] # <<"raise">> =>
                   IF events[1][2] \in {"", None}
                   THEN res = ErrorGeneratingResponse
                   ELSE res = events[1][2]

\* The language model answered with empty content and the caller got the
\* fixed degraded answer.
C21_Witness ==
    /\ AnswerCall
    /\ pc = "returned"
    /\ events = << <<"content", "">> >>
    /\ res = ErrorGeneratingResponse

\* Every transcription is followed at once by the attempt to delete the
\* temporary audio file, whatever the transcription returned.
RemovalAttempted ==
    \A q \in 1..Len(log) :
        log[q][3] = "transcribe_audio" =>
            IF q = Len(log) THEN pc = "cleanup"
            ELSE log[q + 1] = <<log[q][1], -1, "os.remove">>

\* C22: after the transcription of a video, successful or not, the deletion
\* of the temporary audio file is attempted, and a failed deletion never
\* stops the video from being processed.
C22_CleanupAttemptedAndNonFatal ==
    /\ RemovalAttempted
    /\ \A a \in aborted : a[2] # "os.remove"

\* The videos for which process_single_video was started, in the order of
\* the starts: its first step is the call of extract_audio.
Started ==
    LET starts == SelectSeq(log, LAMBDA e : e[3] = "extract_audio")
    IN [k \in 1..Len(starts) |-> starts[k][1]]

BatchOver == pc = "done" /\ run = 1

\* C23: the batch run reaches its normal end, and by then
\* process_single_video has been started exactly once for every ingested
\* video, in list order, whatever happened to the earlier videos.
C23_BatchLiveness ==
    <>(BatchOver /\ Started = [k \in 1..Len(videos) |-> k])

\* The batch is over, the first video was given up on an exception and the
\* last one was still started.
C23_Witness ==
    /\ BatchOver
    /\ \E a \in aborted : a[1] = 1
    /\ Len(videos) >= 2
    /\ Started[Len(Started)] = Len(videos)

InWindow == chunks # <<>> /\ pc \in {"gate", "ocr", "ner", "add_try", "add_sleep", "saved"}

WindowCalls(name) == \E q \in 1..Len(log) : log[q] = <<vi, i, name>>

\* A window whose keyframe is unavailable: the caption and OCR steps are not
\* entered, neither collaborator is called, and the sections are empty.
NoKeyframeNoVisuals ==
    (InWindow /\ current_frame = NoFrame) =>
        /\ pc \notin {"gate", "ocr"}
        /\ ~WindowCalls("generate_visual_caption")
        /\ ~WindowCalls("extract_text_from_frame")
        /\ visual_caption = "" /\ ocr_text = <<>>
        /\ call # NoCall => (VisualOf(call.text) = "" /\ OcrTextOf(call.text) = <<>>)

\* Such a window, from the failed extraction to the start of the next
\* window, leaves previous_frame and previous_caption as they are.
NoKeyframeKeepsSceneState ==
    (/\ chunks' # <<>>
     /\ \/ pc = "frame" /\ current_frame' = NoFrame
        \/ InWindow /\ current_frame = NoFrame)
        => UNCHANGED <<previous_frame, previous_caption>>

\* C24: when no frame can be extracted at a window's midpoint, the window's
\* record has empty visual and on-screen-text sections, neither the caption
\* nor the OCR collaborator is called, and previous_frame and
\* previous_caption are the same for the next window.
C24_KeyframeUnavailable == []NoKeyframeNoVisuals /\ [][NoKeyframeKeepsSceneState]_vars

\* The second window of a video had no keyframe, after a first window that
\* was captioned, and the third window has been reached with the first
\* window's frame and caption still held.
C24_Witness ==
    /\ pc = "frame" /\ i = 2
    /\ frames_seen[1] # NoFrame /\ frames_seen[2] = NoFrame
    /\ previous_frame = frames_seen[1]
    /\ previous_caption = CaptionOf(frames_seen[1])

PastGate == chunks # <<>> /\ pc \in {"ocr", "ner", "add_try", "add_sleep", "saved"}

\* C25: once the gate has been passed for a window whose keyframe is
\* available, previous_frame is that keyframe, captioned or not; and at the
\* gate, previous_frame is the last available keyframe before this window,
\* so that the caption call is decided by the difference to that frame.
C25_FrameToFrameTracking ==
    /\ (PastGate /\ current_frame # NoFrame) => previous_frame = current_frame
    /\ (chunks # <<>> /\ pc = "gate") =>
          previous_frame = RetainedBefore(frames_seen, Len(frames_seen))
    /\ (PastGate /\ current_frame # NoFrame) =>
          (i \in captioned <=>
              (i = 0 \/ get_frame_difference(RetainedBefore(frames_seen, Len(frames_seen)),
                                             current_frame) > scene_change_threshold))

\* Gradual drift: three keyframes, each close to the one before, the third
\* far from the first; only the first was captioned.
C25_Witness ==
    /\ PastGate /\ i = 2
    /\ frames_seen = << <<0>>, <<7>>, <<14>> >>
    /\ captioned = {0}
    /\ previous_frame = <<14>>

CallCount(name) == Cardinality({q \in 1..Len(log) : log[q] = <<vi, i, name>>})

PastOcr == chunks # <<>> /\ pc \in {"ner", "add_try", "add_sleep", "saved"}

\* C26: for a window whose keyframe is available, extract_text_from_frame is
\* called exactly once, after the gate, whether the gate called the caption
\* collaborator or reused the previous caption.
C26_OcrOnEveryKeyframe ==
    /\ (chunks # <<>> /\ pc \in {"gate", "ocr"}) =>
          CallCount("extract_text_from_frame") = 0
    /\ (PastOcr /\ current_frame # NoFrame) => CallCount("extract_text_from_frame") = 1

\* A second window whose caption was reused and whose keyframe has been
\* through text recognition.
C26_Witness ==
    /\ PastOcr /\ i = 1
    /\ current_frame # NoFrame
    /\ i \notin captioned
    /\ CallCount("generate_visual_caption") = 0
    /\ CallCount("extract_text_from_frame") = 1

\* The results of the caption calls made so far for the current video.
CaptionsOfThisVideo ==
    {IF <<k, "caption">> \in failed THEN CaptionError ELSE CaptionOf(frames_seen[k + 1]) :
        k \in captioned}

NoEarlierKeyframe == \A k \in 1..(Len(frames_seen) - 1) : frames_seen[k] = NoFrame

\* C27: every video starts its window loop with no previous frame and the
\* initial caption; the first window of the video that has a keyframe always
\* calls the caption collaborator; and the visual section of a record is
\* empty or the result of a caption call made for the same video.
C27_SceneStatePerVideo ==
    /\ (chunks # <<>> /\ pc = "frame" /\ i = 0) =>
          previous_frame = NoFrame /\ previous_caption = InitialCaption
    /\ (PastGate /\ current_frame # NoFrame /\ NoEarlierKeyframe) => i \in captioned
    /\ RecordAssembled => VisualOf(call.text) \in {""} \cup CaptionsOfThisVideo

\* The second video of a batch: its first window had no keyframe, its second
\* window has one and was captioned, after a first video that was captioned
\* and stored.
C27_Witness ==
    /\ PastGate /\ vi = 2 /\ i = 1
    /\ frames_seen[1] = NoFrame /\ current_frame # NoFrame
    /\ i \in captioned
    /\ \E r \in RecordsOf(1) : VisualOf(r.document) = CaptionOf(current_frame)

\* C28: the placeholder caption is the visual section of no record handed to
\* the store or held by it; the record of a window with a keyframe carries
\* the result of a caption call of the same video, and the record of a window
\* without a keyframe carries an empty visual section.
C28_PlaceholderNeverCommitted ==
    /\ \A r \in collection : VisualOf(r.document) # InitialCaption
    /\ RecordAssembled =>
          /\ VisualOf(call.text) # InitialCaption
          /\ current_frame # NoFrame =>
                /\ captioned # {}
                /\ VisualOf(call.text) \in CaptionsOfThisVideo
          /\ current_frame = NoFrame => VisualOf(call.text) = ""

\* A stored record of a window whose keyframe was the first one available in
\* its video, after a window without a keyframe: the infinite difference to
\* the absent previous frame forced the caption call.
C28_Witness ==
    /\ pc = "saved" /\ i = 1
    /\ frames_seen[1] = NoFrame /\ current_frame # NoFrame
    /\ captioned = {1}
    /\ \E r \in RecordsOf(vi) :
          /\ r.id = call.chunk_id
          /\ VisualOf(r.document) = CaptionOf(current_frame)

FailedAttempts(k) == Cardinality({j \in 1..k : events[j] = "fail"})

Waits == {k \in 1..Len(events) : events[k] = "sleep"}

Exhausted == FailedAttempts(Len(events)) = max_retries

\* C29: within one call, a failed write attempt that is not the last
\* permitted one is followed by exactly one wait and then by the next
\* attempt; the last permitted failed attempt is followed by nothing; so a
\* call whose attempts all fail makes exactly max_retries attempts and
\* max_retries - 1 waits.
C29_RetrySchedule ==
    /\ \A k \in 1..Len(events) :
          /\ events[k] = "fail" =>
                IF FailedAttempts(k) < max_retries
                THEN /\ k = Len(events) => pc = "add_sleep"
                     /\ k < Len(events) => events[k + 1] = "sleep"
                     /\ k + 1 = Len(events) => pc = "add_try"
                     /\ k + 1 < Len(events) => events[k + 2] \in {"fail", "ok"}
                ELSE k = Len(events) /\ pc \notin {"add_try", "add_sleep"}
          /\ events[k] = "sleep" => k > 1 /\ events[k - 1] = "fail"
    /\ Exhausted =>
          /\ Cardinality(WriteAttempts) = max_retries
          /\ Cardinality(Waits) = max_retries - 1

\* A call against a store that failed every time has returned.
C29_Witness ==
    /\ pc = "idle"
    /\ events = <<"fail", "sleep", "fail", "sleep", "fail">>
    /\ call.chunk_id \in reported_failed
    /\ call.chunk_id \notin Ids(collection)

\* ceil(D / S), D in thousandths and S in whole seconds
CeilOfDurationByStep == (arg.video_duration + arg.step_size * Milli - 1) \div (arg.step_size * Milli)

IterationsOfCall ==
    WindowLoopIterations(arg.video_duration, arg.window_size, arg.step_size, 0)

\* C30: for every duration and every positive window and step size the
\* while loop of create_sliding_windows is entered at most ceil(D / S) times
\* (not at all for D <= 0), and it emits at most one window per iteration, so
\* at most ceil(D / S) windows.
C30_WindowGenerationTerminates ==
    WindowsReturned =>
        /\ arg.video_duration <= 0 => IterationsOfCall = 0 /\ res = <<>>
        /\ arg.video_duration > 0 =>
              /\ IterationsOfCall <= CeilOfDurationByStep
              /\ Len(res) <= IterationsOfCall
              /\ Len(res) <= CeilOfDurationByStep

\* A call that reaches the bound with several windows, and whose step is not
\* one second.
C30_Witness ==
    /\ WindowsReturned
    /\ arg.step_size > 1
    /\ Len(res) >= 3
    /\ Len(res) = CeilOfDurationByStep

====
